---- MODULE Spec2Model ----
(***************************************************************************)
(* State-machine model of download_wheelpros.py: one run of main() walks   *)
(* the steps Locate -> Download -> Extract -> Normalize -> Publish ->      *)
(* Log append -> Sort -> Recompute -> Mark read.  The Gmail mailbox, the   *)
(* destination sheet (Sheet1) and the Log sheet persist between runs.      *)
(*                                                                         *)
(* Text is a sequence of one-character strings (longer fixed fragments     *)
(* that are never compared character-wise are kept as one element).  A     *)
(* sheet cell is a number or a text; reading a sheet with get_all_values   *)
(* yields the display text of every cell.                                  *)
(*                                                                         *)
(* Every call to Gmail, HTTP, the file system or Sheets may raise; the     *)
(* exception is uncaught and ends the run (ExternalError).  Authentication *)
(* and the saving and pruning of the ZIP files touch no modelled state.    *)
(*                                                                         *)
(* Spec is the sequence of runs of one process.  SpecFn calls single       *)
(* functions (strip_leading_zeros, the choice of the archive member, the   *)
(* search of the link in a message) on bounded sets of inputs.  SpecRace   *)
(* interleaves the log_upload and sort_log_sheet calls of two processes.   *)
(***************************************************************************)
EXTENDS Integers, Sequences, FiniteSets, TLC

\* ------------------------------------------------------------------ bounds
MaxRuns == 3
MaxMsgs == 2
MaxDay == 1
MaxEdits == 1
MaxLen == 3
MaxFiles == 2
MaxParts == 2

\* ------------------------------------------------------------- text helpers
DigitChars == <<"0", "1", "2", "3", "4", "5", "6", "7", "8", "9">>

IsDigit(c) == \E d \in 1..10 : DigitChars[d] = c

DigitVal(c) == (CHOOSE d \in 1..10 : DigitChars[d] = c) - 1

RECURSIVE Dec(_)
\* str(n) / the sheet's display text of a whole number
Dec(n) ==
    IF n < 0 THEN <<"-">> \o Dec(0 - n)
    ELSE IF n < 10 THEN <<DigitChars[n + 1]>>
    ELSE Dec(n \div 10) \o <<DigitChars[(n % 10) + 1]>>

Pad2(n) == <<DigitChars[(n \div 10) + 1], DigitChars[(n % 10) + 1]>>

RECURSIVE DigitsVal(_)
DigitsVal(s) ==
    IF s = <<>> THEN 0
    ELSE 10 * DigitsVal(SubSeq(s, 1, Len(s) - 1)) + DigitVal(s[Len(s)])

\* every character is one of 0..9 (what int() and float() accept here)
AllDigits(s) == Len(s) > 0 /\ \A i \in 1..Len(s) : IsDigit(s[i])

\* U+00B2 SUPERSCRIPT TWO, standing for the characters that str.isdigit()
\* accepts and int() rejects
SuperTwo == "SUPERSCRIPT TWO"

\* str.isdigit(): non-empty and every character is a digit character,
\* the decimal digits and the superscript digits among them
IsDigitStr(s) ==
    Len(s) > 0 /\ \A i \in 1..Len(s) : IsDigit(s[i]) \/ s[i] = SuperTwo

\* float(text) succeeds (the texts of this model: optional sign, digits)
IsFloat(s) ==
    \/ AllDigits(s)
    \/ Len(s) > 1 /\ s[1] = "-" /\ AllDigits(Tail(s))

FloatVal(s) == IF s[1] = "-" THEN 0 - DigitsVal(Tail(s)) ELSE DigitsVal(s)

\* code point of the characters a timestamp text is made of (and of the
\* first character of the header text, which two overlapping runs can sort)
Ord(c) ==
    CASE c = " " -> 32
      [] c = "-" -> 45
      [] c = ":" -> 58
      [] c = "A" -> 65
      [] c = "M" -> 77
      [] c = "P" -> 80
      [] c = "Upload Time" -> 85  \* the header text, ordered by its "U"
      [] IsDigit(c) -> 48 + DigitVal(c)

RECURSIVE StrLess(_, _)
\* Python's a < b on str: lexicographic by code point
StrLess(a, b) ==
    IF b = <<>> THEN FALSE
    ELSE IF a = <<>> THEN TRUE
    ELSE IF a[1] = b[1] THEN StrLess(Tail(a), Tail(b))
    ELSE Ord(a[1]) < Ord(b[1])

\* ------------------------------------------------------------------- cells
Num(n) == [k |-> "num", n |-> n, s |-> <<>>]
Str(s) == [k |-> "str", n |-> 0, s |-> s]
NaN == [k |-> "nan", n |-> 0, s |-> <<>>]
Blank == Str(<<>>)

\* int(val) raised ValueError: the value strip_leading_zeros never returned
ValueError == [k |-> "err", n |-> 0, s |-> <<"ValueError">>]

\* get_all_values returns every cell as its display text
CellText(c) == IF c.k = "num" THEN Dec(c.n) ELSE c.s

AsText(c) == Str(CellText(c))

\* ---------------------------------------------------------------- settings
TARGET_CSV ==
    <<"w", "h", "e", "e", "l", "I", "n", "v", "P", "r", "i", "c", "e",
      "D", "a", "t", "a", ".", "c", "s", "v">>

needed_columns == <<"PartNumber", "PartDescription", "TotalQOH">>

LogHeader ==
    << Str(<<"Upload Time">>), Str(<<"File Name">>), Str(<<"Rows">>),
       Str(<<"Sheet Range">>), Str(<<"Status">>), Str(<<"TotalQOH">>),
       Str(<<"Change from Previous Day">>) >>

totalqoh_col == 5
change_col == 6

status_msg == Str(<<"wheelInvPriceData.csv imported successfully.">>)

\* ------------------------------------------------------------------- clock
\* An instant of the wall clock: day d of January 2024 (d = 0 is the 1st),
\* hour h (0..23), minute m.
Hours == {9, 13}
Minutes == {0}
Instants == [d : 0..MaxDay, h : Hours, m : Minutes]

MinuteOf(t) == (t.d * 24 + t.h) * 60 + t.m

DatePrefix == <<"2", "0", "2", "4", "-", "0", "1", "-">>

Hour12(h) == IF h % 12 = 0 THEN 12 ELSE h % 12

AmPm(h) == IF h < 12 THEN "A" ELSE "P"

\* strftime("%Y-%m-%d %I:%M %p")
Strftime(t) ==
    DatePrefix \o Pad2(t.d + 1) \o <<" ">> \o Pad2(Hour12(t.h)) \o <<":">>
        \o Pad2(t.m) \o <<" ", AmPm(t.h), "M">>

\* the instant a timestamp text denotes (strptime with the same format),
\* in minutes since the 1st, 00:00
TimeOfText(s) ==
    LET day == DigitsVal(SubSeq(s, 9, 10)) - 1
        h12 == DigitsVal(SubSeq(s, 12, 13))
        mi == DigitsVal(SubSeq(s, 15, 16))
        h24 == (h12 % 12) + (IF s[18] = "P" THEN 12 ELSE 0)
    IN  (day * 24 + h24) * 60 + mi

\* --------------------------------------------------------- archive resolver
UpperChars ==
    <<"A", "B", "C", "D", "E", "F", "G", "H", "I", "J", "K", "L", "M",
      "N", "O", "P", "Q", "R", "S", "T", "U", "V", "W", "X", "Y", "Z">>
LowerChars ==
    <<"a", "b", "c", "d", "e", "f", "g", "h", "i", "j", "k", "l", "m",
      "n", "o", "p", "q", "r", "s", "t", "u", "v", "w", "x", "y", "z">>

LowerChar(c) ==
    IF \E i \in 1..26 : UpperChars[i] = c
    THEN LowerChars[CHOOSE i \in 1..26 : UpperChars[i] = c]
    ELSE c

\* str.lower()
Lower(s) == [i \in 1..Len(s) |-> LowerChar(s[i])]

\* str.endswith
EndsWith(s, suf) ==
    Len(suf) <= Len(s) /\ SubSeq(s, Len(s) - Len(suf) + 1, Len(s)) = suf

\* Faulty variant of NameMatches: the "/" before the target name is dropped.
NameMatchesLoose(f) == EndsWith(Lower(f), Lower(TARGET_CSV))

NameMatches(f) ==
    \/ EndsWith(Lower(f), <<"/">> \o Lower(TARGET_CSV))
    \/ Lower(f) = Lower(TARGET_CSV)

\* next((f for f in filelist if ...), None); None is the empty name
TargetPath(filelist) ==
    IF \E i \in 1..Len(filelist) : NameMatches(filelist[i])
    THEN filelist[CHOOSE i \in 1..Len(filelist) :
            /\ NameMatches(filelist[i])
            /\ \A j \in 1..(i - 1) : ~NameMatches(filelist[j])]
    ELSE <<>>

NameReadme == <<"r", "e", "a", "d", "m", "e", ".", "t", "x", "t">>
NameNested ==
    <<"D", "a", "t", "a", "/">> \o
    <<"W", "H", "E", "E", "L", "i", "n", "v", "p", "r", "i", "c", "e",
      "d", "a", "t", "a", ".", "C", "S", "V">>
NamePrefixed == <<"x">> \o TARGET_CSV

FileLists ==
    { <<NameReadme, NameNested>>, <<TARGET_CSV>>,
      <<NamePrefixed, NameReadme>>, <<>> }

\* ---------------------------------------------------------- row normalizer
\* A parsed CSV (DataFrame): column names and rows of cells.
TableFeed ==
    [ cols |-> <<"PartNumber", "Brand", "PartDescription", "TotalQOH">>,
      data |-> << <<Str(<<"0", "0", "1", "2", "3">>), Str(<<"WP">>),
                    Str(<<"Rim A">>), Num(10)>>,
                  <<Str(<<"A", "B", "C">>), NaN, Str(<<"Rim B">>), Num(5)>>,
                  <<Num(9), Str(<<"WP">>), NaN, NaN>> >> ]
TableShort ==
    [ cols |-> <<"TotalQOH", "PartDescription", "PartNumber">>,
      data |-> << <<Str(<<"7">>), Str(<<"Rim C">>), Str(<<"0", "0">>)>>,
                  <<Str(<<"n", "/", "a">>), NaN, Num(452)>> >> ]
TableDrift ==
    [ cols |-> <<"PartNumber", "Description", "QOH">>,
      data |-> << <<Num(1), Str(<<"Rim E">>), Num(3)>> >> ]

TableNoQty ==
    [ cols |-> <<"PartDescription", "PartNumber", "Qty">>,
      data |-> << <<Str(<<"Rim F">>), Num(2), Num(4)>> >> ]
TableBare ==
    [ cols |-> <<"Sku">>,
      data |-> << <<Num(3)>> >> ]
TableSuper ==
    [ cols |-> <<"PartNumber", "PartDescription", "TotalQOH">>,
      data |-> << <<Str(<<"1", SuperTwo>>), Str(<<"Rim G">>), Num(6)>> >> ]

Tables ==
    {TableFeed, TableShort, TableDrift, TableNoQty, TableBare, TableSuper}

ColIndex(cols, c) == CHOOSE i \in 1..Len(cols) : cols[i] = c

HasCol(cols, c) == \E i \in 1..Len(cols) : cols[i] = c

NotInCols(cols, c) == ~HasCol(cols, c)

\* Faulty variant of Missing: only the first missing column is reported.
MissingFirst(cols) ==
    LET miss(c) == NotInCols(cols, c)
        all == SelectSeq(needed_columns, miss)
    IN  SubSeq(all, 1, 1)

\* [col for col in needed_columns if col not in df.columns]
Missing(cols) ==
    LET miss(c) == NotInCols(cols, c) IN SelectSeq(needed_columns, miss)

\* fillna('')
FillNa(c) == IF c.k = "nan" THEN Blank ELSE c

strip_leading_zeros(val) ==
    IF val.k = "str" /\ IsDigitStr(val.s)
    THEN (IF AllDigits(val.s) THEN Str(Dec(DigitsVal(val.s))) ELSE ValueError)
    ELSE val

\* df[needed_columns].fillna('') with PartNumber canonicalised
Normalize(tbl) ==
    [r \in 1..Len(tbl.data) |->
        [c \in 1..Len(needed_columns) |->
            LET cell == FillNa(tbl.data[r][ColIndex(tbl.cols, needed_columns[c])])
            IN  IF c = 1 THEN strip_leading_zeros(cell) ELSE cell]]

\* .apply(strip_leading_zeros) raises on some PartNumber
StripRaises(tbl) == \E r \in 1..Len(tbl.data) : Normalize(tbl)[r][1] = ValueError

\* Faulty variant of IsNumeric: numeric text is not coerced.
IsNumericStrict(c) == c.k = "num"

\* pd.to_numeric(x, errors='coerce'): is the cell a number, and which
IsNumeric(c) == c.k = "num" \/ (c.k = "str" /\ IsFloat(c.s))

NumericVal(c) == IF c.k = "num" THEN c.n ELSE FloatVal(c.s)

RECURSIVE SumQoh(_)
\* Series.sum() over the coerced column (NaN skipped)
SumQoh(rows) ==
    IF rows = <<>> THEN 0
    ELSE (IF IsNumeric(rows[1][3]) THEN NumericVal(rows[1][3]) ELSE 0)
            + SumQoh(Tail(rows))

DestHeader == [c \in 1..Len(needed_columns) |-> Str(<<needed_columns[c]>>)]

\* worksheet.update(values): writes the block at A1, cells outside it stay
UpdateFromA1(sheet, block) ==
    block \o SubSeq(sheet, Len(block) + 1, Len(sheet))

\* ---------------------------------------------------------- log reconciler
\* the row log_upload appends
LogRow(upload_time, rows) ==
    << Str(upload_time),
       Str(<<"WheelPros Email - ">> \o upload_time),
       Num(Len(rows)),
       Str(<<"A", "2", ":", "C">> \o Dec(Len(rows) + 1)),
       status_msg,
       Num(SumQoh(rows)),
       Blank >>

\* get_all_values(): every cell as text
AllValues(sheet) ==
    [i \in 1..Len(sheet) |-> [c \in 1..Len(sheet[i]) |-> AsText(sheet[i][c])]]

RECURSIVE InsertDescUnique(_, _)
\* Faulty variant of InsertDesc: a row whose key is already there is dropped.
InsertDescUnique(sorted, r) ==
    IF sorted = <<>> THEN <<r>>
    ELSE IF StrLess(sorted[1][1].s, r[1].s) THEN <<r>> \o sorted
    ELSE IF sorted[1][1].s = r[1].s THEN sorted
    ELSE <<sorted[1]>> \o InsertDescUnique(Tail(sorted), r)

RECURSIVE InsertDescTiesFirst(_, _)
\* Faulty variant of InsertDesc: an unstable sort, rows with equal keys swap.
InsertDescTiesFirst(sorted, r) ==
    IF sorted = <<>> THEN <<r>>
    ELSE IF ~StrLess(r[1].s, sorted[1][1].s) THEN <<r>> \o sorted
    ELSE <<sorted[1]>> \o InsertDescTiesFirst(Tail(sorted), r)

RECURSIVE InsertDesc(_, _)
\* place r behind every row whose key is >= r's key
InsertDesc(sorted, r) ==
    IF sorted = <<>> THEN <<r>>
    ELSE IF StrLess(sorted[1][1].s, r[1].s) THEN <<r>> \o sorted
    ELSE <<sorted[1]>> \o InsertDesc(Tail(sorted), r)

RECURSIVE SortDesc(_)
\* data.sort(key=lambda r: r[0], reverse=True): stable, descending
SortDesc(data) ==
    IF data = <<>> THEN <<>>
    ELSE InsertDesc(SortDesc(SubSeq(data, 1, Len(data) - 1)), data[Len(data)])

\* float(values[i][totalqoh_col]) succeeds
Parseable(row) == IsFloat(row[totalqoh_col + 1].s)

QohOf(row) == FloatVal(row[totalqoh_col + 1].s)

\* rows below i (0-based list index i, so sequence positions i+2..) whose
\* total parses
ParseableBelow(vals, i) ==
    {j \in (i + 1)..(Len(vals) - 1) : Parseable(vals[j + 1])}

Min(S) == CHOOSE x \in S : \A y \in S : x <= y

\* Faulty variant of Diff: the operands are swapped.
DiffSwapped(vals, i) ==
    IF Parseable(vals[i + 1]) /\ ParseableBelow(vals, i) # {}
    THEN Num(QohOf(vals[Min(ParseableBelow(vals, i)) + 1]) - QohOf(vals[i + 1]))
    ELSE Blank

\* the diff compute_daily_change writes for list index i
Diff(vals, i) ==
    IF Parseable(vals[i + 1]) /\ ParseableBelow(vals, i) # {}
    THEN Num(QohOf(vals[i + 1]) - QohOf(vals[Min(ParseableBelow(vals, i)) + 1]))
    ELSE Blank

\* ------------------------------------------------------------------- state
VARIABLES
    mailbox,       \* matching messages, oldest first: [link, consumed]
    dest,          \* the destination sheet (Sheet1): rows of cells
    logExists,     \* the Log worksheet exists
    log,           \* the Log sheet: rows of seven cells
    now,           \* the wall clock
    pc,            \* position of the run in main()
    msg_id,        \* main: msg_id (0 before the locator returned one)
    df,            \* main: the parsed CSV
    df_small,      \* main: the normalized rows
    upload_time,   \* main: upload_time
    values,        \* sort_log_sheet / compute_daily_change: values
    data,          \* sort_log_sheet: the sorted rows still to append
    i,             \* compute_daily_change: loop index
    err,           \* the exception that is propagating
    pre,           \* history: mailbox, dest and log when the run started
    done,          \* history: the steps of this run that completed
    nRuns,         \* history: runs started
    nOk,           \* history: runs that completed
    nLogAborts,    \* history: aborted runs that had changed the Log sheet
    nEdits,        \* history: manual edits of the Log sheet
    lastFailedMsg, \* history: message the previous run aborted on (0: none)
    missing,       \* main: missing
    call,          \* a function called on its own: [fn, arg, val, err]
    runB           \* a second, overlapping run: [pc, upload_time, values,
                   \* data] and the history flag inWindow (it appended after
                   \* the first run read the Log sheet and before that run
                   \* cleared it)

vars ==
    << mailbox, dest, logExists, log, now, pc, msg_id, df, df_small,
       upload_time, values, data, i, err, pre, done, nRuns, nOk,
       nLogAborts, nEdits, lastFailedMsg, missing, call, runB >>

stores == <<dest, logExists, log>>
locals == <<msg_id, df, df_small, upload_time, values, data, i>>
history == <<pre, nRuns, nOk, nLogAborts, nEdits, lastFailedMsg>>

NoTable == [cols |-> <<>>, data |-> <<>>]

AllSteps ==
    {"locate", "download", "extract", "normalize", "publish", "log_append",
     "sort", "recompute"}

RunPcs ==
    {"locate", "download", "extract", "normalize", "publish_clear",
     "publish_update", "log_sheet", "log_header", "log_upload", "sort_read",
     "sort_clear", "sort_header", "sort_rows", "compute_read",
     "compute_cell", "mark_read"}

Snapshot ==
    [mailbox |-> mailbox, dest |-> dest, logExists |-> logExists, log |-> log]

NoSnapshot ==
    [mailbox |-> <<>>, dest |-> <<>>, logExists |-> FALSE, log |-> <<>>]

NoCall == [fn |-> "none", arg |-> <<>>, val |-> <<>>, err |-> "none"]

NoRunB ==
    [pc |-> "idle", upload_time |-> <<>>, values |-> <<>>, data |-> <<>>,
     inWindow |-> FALSE]

\* no function is called on its own and no second run overlaps
Alone ==
    /\ call = NoCall
    /\ runB = NoRunB

\* the stores and main()'s variables before the first run
InitMain ==
    /\ missing = <<>>
    /\ mailbox = <<>>
    /\ dest = <<>>
    /\ logExists \in BOOLEAN
    /\ log = IF logExists THEN <<LogHeader>> ELSE <<>>
    /\ now = [d |-> 0, h |-> 9, m |-> 0]
    /\ pc = "idle"
    /\ msg_id = 0
    /\ df = NoTable
    /\ df_small = <<>>
    /\ upload_time = <<>>
    /\ values = <<>>
    /\ data = <<>>
    /\ i = 0
    /\ err = "none"
    /\ pre = NoSnapshot
    /\ done = {}
    /\ nRuns = 0
    /\ nOk = 0
    /\ nLogAborts = 0
    /\ nEdits = 0
    /\ lastFailedMsg = 0

Init ==
    /\ Alone
    /\ InitMain

\* -------------------------------------------------------------- environment
\* A new feed notification arrives between two runs (its body holds the
\* download link or not).
NewMail ==
    /\ pc = "idle"
    /\ Len(mailbox) < MaxMsgs
    /\ \E link \in BOOLEAN :
        mailbox' = Append(mailbox, [link |-> link, consumed |-> FALSE])
    /\ UNCHANGED <<missing, call, runB>>
    /\ UNCHANGED <<stores, now, pc, locals, err, done, history>>

\* Somebody overwrites the total of an entry by hand while no run is active.
ManualEdit ==
    /\ pc = "idle"
    /\ nEdits < MaxEdits
    /\ \E r \in 2..Len(log) :
        log' = [log EXCEPT ![r][totalqoh_col + 1] = Str(<<"n", "/", "a">>)]
    /\ nEdits' = nEdits + 1
    /\ UNCHANGED <<missing, call, runB>>
    /\ UNCHANGED <<mailbox, dest, logExists, now, pc, locals, err, done, pre, nRuns, nOk, nLogAborts, lastFailedMsg>>

\* ------------------------------------------------------------------- main()
Raise(e) ==
    /\ err' = e
    /\ pc' = "raise"

Start ==
    /\ pc = "idle"
    /\ nRuns < MaxRuns
    /\ pc' = "locate"
    /\ nRuns' = nRuns + 1
    /\ pre' = Snapshot
    /\ done' = {}
    /\ err' = "none"
    /\ UNCHANGED <<missing, call, runB>>
    /\ UNCHANGED <<mailbox, stores, now, locals, nOk, nLogAborts,
                   nEdits, lastFailedMsg>>

\* Faulty variant of LatestMatching: the oldest matching message.
OldestMatching(mb) == 1

\* messages.list(q=GMAIL_QUERY, maxResults=1): the newest matching message;
\* the query names sender and subject only, no label
LatestMatching(mb) == Len(mb)

LocateNotFound ==
    /\ pc = "locate"
    /\ mailbox = <<>>
    /\ Raise("NotFound")
    /\ UNCHANGED <<missing, call, runB>>
    /\ UNCHANGED <<mailbox, stores, now, locals, done, history>>

LocateLinkNotFound ==
    /\ pc = "locate"
    /\ mailbox # <<>>
    /\ ~mailbox[LatestMatching(mailbox)].link
    /\ msg_id' = LatestMatching(mailbox)
    /\ Raise("LinkNotFound")
    /\ UNCHANGED <<missing, call, runB>>
    /\ UNCHANGED <<mailbox, stores, now, df, df_small, upload_time, values,
                   data, i, done, history>>

LocateOk ==
    /\ pc = "locate"
    /\ mailbox # <<>>
    /\ mailbox[LatestMatching(mailbox)].link
    /\ msg_id' = LatestMatching(mailbox)
    /\ pc' = "download"
    /\ done' = done \cup {"locate"}
    /\ UNCHANGED <<missing, call, runB>>
    /\ UNCHANGED <<mailbox, stores, now, df, df_small, upload_time, values,
                   data, i, err, history>>

DownloadFailed ==
    /\ pc = "download"
    /\ Raise("DownloadFailed")
    /\ UNCHANGED <<missing, call, runB>>
    /\ UNCHANGED <<mailbox, stores, now, locals, done, history>>

DownloadOk ==
    /\ pc = "download"
    /\ pc' = "extract"
    /\ done' = done \cup {"download"}
    /\ UNCHANGED <<missing, call, runB>>
    /\ UNCHANGED <<mailbox, stores, now, locals, err, history>>

ExtractMissing ==
    /\ pc = "extract"
    /\ \E filelist \in FileLists : TargetPath(filelist) = <<>>
    /\ Raise("ArchiveMemberNotFound")
    /\ UNCHANGED <<missing, call, runB>>
    /\ UNCHANGED <<mailbox, stores, now, locals, done, history>>

ExtractOk ==
    /\ pc = "extract"
    /\ \E filelist \in FileLists : TargetPath(filelist) # <<>>
    /\ \E tbl \in Tables : df' = tbl
    /\ pc' = "normalize"
    /\ done' = done \cup {"extract"}
    /\ UNCHANGED <<missing, call, runB>>
    /\ UNCHANGED <<mailbox, stores, now, msg_id, df_small, upload_time,
                   values, data, i, err, history>>

\* Faulty variant of NormalizeMismatch: the destination is cleared before
\* the columns are checked.
NormalizeMismatchAfterClear ==
    /\ pc = "normalize"
    /\ Missing(df.cols) # <<>>
    /\ missing' = Missing(df.cols)
    /\ dest' = <<>>
    /\ Raise("SchemaMismatch")
    /\ UNCHANGED <<call, runB>>
    /\ UNCHANGED <<mailbox, logExists, log, now, locals, done, history>>

NormalizeMismatch ==
    /\ pc = "normalize"
    /\ Missing(df.cols) # <<>>
    /\ missing' = Missing(df.cols)
    /\ Raise("SchemaMismatch")
    /\ UNCHANGED <<call, runB>>
    /\ UNCHANGED <<mailbox, stores, now, locals, done, history>>

\* df_small['PartNumber'].apply(strip_leading_zeros): int() raises
NormalizeValueError ==
    /\ pc = "normalize"
    /\ Missing(df.cols) = <<>>
    /\ StripRaises(df)
    /\ missing' = Missing(df.cols)
    /\ Raise("ValueError")
    /\ UNCHANGED <<call, runB>>
    /\ UNCHANGED <<mailbox, stores, now, locals, done, history>>

\* Faulty variant of NormalizeOk: the log steps come before the publisher.
NormalizeOkLogFirst ==
    /\ pc = "normalize"
    /\ Missing(df.cols) = <<>>
    /\ ~StripRaises(df)
    /\ missing' = Missing(df.cols)
    /\ df_small' = Normalize(df)
    /\ pc' = "log_sheet"
    /\ done' = done \cup {"normalize"}
    /\ UNCHANGED <<call, runB>>
    /\ UNCHANGED <<mailbox, stores, now, msg_id, df, upload_time, values,
                   data, i, err, history>>

NormalizeOk ==
    /\ pc = "normalize"
    /\ Missing(df.cols) = <<>>
    /\ ~StripRaises(df)
    /\ missing' = Missing(df.cols)
    /\ df_small' = Normalize(df)
    /\ pc' = "publish_clear"
    /\ done' = done \cup {"normalize"}
    /\ UNCHANGED <<call, runB>>
    /\ UNCHANGED <<mailbox, stores, now, msg_id, df, upload_time, values,
                   data, i, err, history>>

\* Faulty variant of PublishClear: the sheet is not cleared.
PublishClearSkipped ==
    /\ pc = "publish_clear"
    /\ pc' = "publish_update"
    /\ UNCHANGED <<missing, call, runB>>
    /\ UNCHANGED <<mailbox, stores, now, locals, err, done, history>>

\* Step 5: worksheet.clear()
PublishClear ==
    /\ pc = "publish_clear"
    /\ dest' = <<>>
    /\ pc' = "publish_update"
    /\ UNCHANGED <<missing, call, runB>>
    /\ UNCHANGED <<mailbox, logExists, log, now, locals, err, done,
                   history>>

\* Step 5: worksheet.update([columns] + rows)
PublishUpdate ==
    /\ pc = "publish_update"
    /\ dest' = UpdateFromA1(dest, <<DestHeader>> \o df_small)
    /\ pc' = "log_sheet"
    /\ done' = done \cup {"publish"}
    /\ UNCHANGED <<missing, call, runB>>
    /\ UNCHANGED <<mailbox, logExists, log, now, locals, err, history>>

\* get_or_create_log_sheet: the worksheet exists
LogSheetFound ==
    /\ pc = "log_sheet"
    /\ logExists
    /\ pc' = "log_upload"
    /\ UNCHANGED <<missing, call, runB>>
    /\ UNCHANGED <<mailbox, stores, now, locals, err, done, history>>

\* get_or_create_log_sheet: add_worksheet
LogSheetAdd ==
    /\ pc = "log_sheet"
    /\ ~logExists
    /\ logExists' = TRUE
    /\ log' = <<>>
    /\ pc' = "log_header"
    /\ UNCHANGED <<missing, call, runB>>
    /\ UNCHANGED <<mailbox, dest, now, locals, err, done, history>>

\* get_or_create_log_sheet: append_row(header)
LogSheetHeader ==
    /\ pc = "log_header"
    /\ log' = Append(log, LogHeader)
    /\ pc' = "log_upload"
    /\ UNCHANGED <<missing, call, runB>>
    /\ UNCHANGED <<mailbox, dest, logExists, now, locals, err, done,
                   history>>

\* upload_time = datetime.now().strftime(...); log_upload(...)
LogUpload ==
    /\ pc = "log_upload"
    /\ \E t \in Instants :
        /\ MinuteOf(t) >= MinuteOf(now)
        /\ now' = t
        /\ upload_time' = Strftime(t)
        /\ log' = Append(log, LogRow(Strftime(t), df_small))
    /\ pc' = "sort_read"
    /\ done' = done \cup {"log_append"}
    /\ UNCHANGED <<missing, call, runB>>
    /\ UNCHANGED <<mailbox, dest, logExists, msg_id, df, df_small, values,
                   data, i, err, history>>

\* Faulty variant of SortedData: ascending order (reverse=False).
SortedDataAsc(vals) ==
    LET d == SortDesc(Tail(vals)) IN [k \in 1..Len(d) |-> d[Len(d) + 1 - k]]

\* sort_log_sheet: data = values[1:]; data.sort(...)
SortedData(vals) == SortDesc(Tail(vals))

\* sort_log_sheet: get_all_values, the early return, the sort
SortRead ==
    /\ pc = "sort_read"
    /\ values' = AllValues(log)
    /\ IF Len(log) <= 1
       THEN /\ pc' = "compute_read"
            /\ done' = done \cup {"sort"}
            /\ data' = data
       ELSE /\ pc' = "sort_clear"
            /\ data' = SortedData(AllValues(log))
            /\ done' = done
    /\ UNCHANGED <<missing, call, runB>>
    /\ UNCHANGED <<mailbox, stores, now, msg_id, df, df_small, upload_time,
                   i, err, history>>

\* Faulty variant of SortClear: only the rows that were read are deleted.
SortClearOwnRows ==
    /\ pc = "sort_clear"
    /\ log' = SubSeq(log, Len(values) + 1, Len(log))
    /\ pc' = "sort_header"
    /\ UNCHANGED <<missing, call, runB>>
    /\ UNCHANGED <<mailbox, dest, logExists, now, locals, err, done,
                   history>>

\* sort_log_sheet: log_sheet.clear()
SortClear ==
    /\ pc = "sort_clear"
    /\ log' = <<>>
    /\ pc' = "sort_header"
    /\ UNCHANGED <<missing, call, runB>>
    /\ UNCHANGED <<mailbox, dest, logExists, now, locals, err, done,
                   history>>

\* sort_log_sheet: append_row(values[0])
SortHeader ==
    /\ pc = "sort_header"
    /\ log' = Append(log, values[1])
    /\ pc' = "sort_rows"
    /\ UNCHANGED <<missing, call, runB>>
    /\ UNCHANGED <<mailbox, dest, logExists, now, locals, err, done,
                   history>>

\* Faulty variant of SortRow: the loop stops one row early (data[:-1]).
SortRowStopsEarly ==
    /\ pc = "sort_rows"
    /\ log' = IF Tail(data) = <<>> THEN log ELSE Append(log, Head(data))
    /\ data' = Tail(data)
    /\ IF Tail(data) = <<>>
       THEN /\ pc' = "compute_read"
            /\ done' = done \cup {"sort"}
       ELSE UNCHANGED <<pc, done>>
    /\ UNCHANGED <<missing, call, runB>>
    /\ UNCHANGED <<mailbox, dest, logExists, now, msg_id, df, df_small,
                   upload_time, values, i, err, history>>

\* sort_log_sheet: one append_row(row) of the loop
SortRow ==
    /\ pc = "sort_rows"
    /\ log' = Append(log, Head(data))
    /\ data' = Tail(data)
    /\ IF Tail(data) = <<>>
       THEN /\ pc' = "compute_read"
            /\ done' = done \cup {"sort"}
       ELSE UNCHANGED <<pc, done>>
    /\ UNCHANGED <<missing, call, runB>>
    /\ UNCHANGED <<mailbox, dest, logExists, now, msg_id, df, df_small,
                   upload_time, values, i, err, history>>

\* compute_daily_change: get_all_values and the early return
ComputeRead ==
    /\ pc = "compute_read"
    /\ values' = AllValues(log)
    /\ IF Len(log) < 3
       THEN /\ pc' = "mark_read"
            /\ done' = done \cup {"recompute"}
            /\ i' = i
       ELSE /\ pc' = "compute_cell"
            /\ i' = 1
            /\ done' = done
    /\ UNCHANGED <<missing, call, runB>>
    /\ UNCHANGED <<mailbox, stores, now, msg_id, df, df_small, upload_time,
                   data, err, history>>

\* compute_daily_change: one update_cell(i + 1, change_col + 1, diff)
ComputeCell ==
    /\ pc = "compute_cell"
    /\ log' = [log EXCEPT ![i + 1][change_col + 1] = Diff(values, i)]
    /\ i' = i + 1
    /\ IF i + 1 = Len(values)
       THEN /\ pc' = "mark_read"
            /\ done' = done \cup {"recompute"}
       ELSE UNCHANGED <<pc, done>>
    /\ UNCHANGED <<missing, call, runB>>
    /\ UNCHANGED <<mailbox, dest, logExists, now, msg_id, df, df_small,
                   upload_time, values, data, err, history>>

\* Faulty variant of MarkRead: the message is also marked before the change
\* column is recomputed.
MarkReadEarly ==
    /\ pc \in {"mark_read", "compute_read"}
    /\ mailbox' = [mailbox EXCEPT ![msg_id].consumed = TRUE]
    /\ pc' = "done"
    /\ nOk' = nOk + 1
    /\ UNCHANGED <<missing, call, runB>>
    /\ UNCHANGED <<stores, now, locals, err, done, pre, nRuns, nLogAborts,
                   nEdits, lastFailedMsg>>

\* Step 7: messages.modify(removeLabelIds = INBOX, UNREAD)
MarkRead ==
    /\ pc = "mark_read"
    /\ mailbox' = [mailbox EXCEPT ![msg_id].consumed = TRUE]
    /\ pc' = "done"
    /\ nOk' = nOk + 1
    /\ UNCHANGED <<missing, call, runB>>
    /\ UNCHANGED <<stores, now, locals, err, done, pre, nRuns,
                   nLogAborts, nEdits, lastFailedMsg>>

\* The external call the run is about to make raises (network, API, I/O).
ExternalError ==
    /\ pc \in RunPcs
    /\ Raise("External")
    /\ UNCHANGED <<missing, call, runB>>
    /\ UNCHANGED <<mailbox, stores, now, locals, done, history>>

\* The process ends: the exception is uncaught, or main() returned.
Terminate ==
    /\ pc \in {"raise", "done"}
    /\ pc' = "idle"
    /\ lastFailedMsg' = IF pc = "raise" THEN msg_id ELSE 0
    /\ nLogAborts' =
        IF pc = "raise" /\ <<logExists, log>> # <<pre.logExists, pre.log>>
        THEN nLogAborts + 1 ELSE nLogAborts
    /\ msg_id' = 0
    /\ df' = NoTable
    /\ df_small' = <<>>
    /\ upload_time' = <<>>
    /\ values' = <<>>
    /\ data' = <<>>
    /\ i' = 0
    /\ missing' = <<>>
    /\ err' = "none"
    /\ pre' = NoSnapshot
    /\ done' = {}
    /\ UNCHANGED <<call, runB>>
    /\ UNCHANGED <<mailbox, stores, now, nRuns, nOk, nEdits>>

Next ==
    \/ NewMail
    \/ ManualEdit
    \/ Start
    \/ LocateNotFound
    \/ LocateLinkNotFound
    \/ LocateOk
    \/ DownloadFailed
    \/ DownloadOk
    \/ ExtractMissing
    \/ ExtractOk
    \/ NormalizeMismatch
    \/ NormalizeValueError
    \/ NormalizeOk
    \/ PublishClear
    \/ PublishUpdate
    \/ LogSheetFound
    \/ LogSheetAdd
    \/ LogSheetHeader
    \/ LogUpload
    \/ SortRead
    \/ SortClear
    \/ SortHeader
    \/ SortRow
    \/ ComputeRead
    \/ ComputeCell
    \/ MarkRead
    \/ ExternalError
    \/ Terminate

Spec == Init /\ [][Next]_vars

\* ------------------------------------------- the reconciler as functions
\* sort_log_sheet as one function of the sheet: what the sheet holds when
\* the call returns
SortSheet(sheet) ==
    IF Len(sheet) <= 1 THEN sheet
    ELSE <<AllValues(sheet)[1]>> \o SortedData(AllValues(sheet))

\* compute_daily_change as one function of the sheet
ComputeSheet(sheet) ==
    IF Len(sheet) < 3 THEN sheet
    ELSE [r \in 1..Len(sheet) |->
            IF r = 1 THEN sheet[r]
            ELSE [sheet[r] EXCEPT
                    ![change_col + 1] = Diff(AllValues(sheet), r - 1)]]

\* main: sort_log_sheet(log_sheet); compute_daily_change(log_sheet)
Reconcile(sheet) == ComputeSheet(SortSheet(sheet))

\* ------------------------------------------ functions called on their own
SeqsUpTo(S, n) == UNION {[1..k -> S] : k \in 0..n}

mainvars ==
    <<mailbox, stores, now, pc, locals, err, done, history, missing, runB>>

Pending(fn, arg) == [fn |-> fn, arg |-> arg, val |-> <<>>, err |-> "pending"]

\* --- strip_leading_zeros(val)
IdChars == {"0", "1", "7"}

Identifiers ==
    SeqsUpTo(IdChars, MaxLen)
        \cup { <<"A">>, <<"0", "A">>, <<"A", "0">>, <<"-", "1">>,
               <<"1", ".", "0">>, <<SuperTwo>>, <<"0", SuperTwo>> }

\* the PartNumber cells of df_small after fillna('')
PartNumbers == {Str(s) : s \in Identifiers} \cup {Num(0), Num(452)}

CallStripLeadingZeros ==
    /\ call.fn = "strip_leading_zeros"
    /\ call.err = "pending"
    /\ LET v == strip_leading_zeros(call.arg)
       IN  call' = IF v = ValueError
                   THEN [call EXCEPT !.err = "ValueError"]
                   ELSE [call EXCEPT !.val = v, !.err = "none"]
    /\ UNCHANGED mainvars

\* --- main, Step 4: the member of the archive
NameUpper ==
    <<"W", "H", "E", "E", "L", "I", "N", "V", "P", "R", "I", "C", "E",
      "D", "A", "T", "A", ".", "C", "S", "V">>
NameDeep == <<"a", "/", "b", "/">> \o TARGET_CSV
NameBackup == TARGET_CSV \o <<".", "b", "a", "k">>

Names ==
    {NameReadme, NameNested, TARGET_CSV, NamePrefixed, NameUpper, NameDeep,
     NameBackup}

\* target_path = next(...); if not target_path: raise
CallTargetPath ==
    /\ call.fn = "target_path"
    /\ call.err = "pending"
    /\ call' = IF TargetPath(call.arg) = <<>>
               THEN [call EXCEPT !.err = "ArchiveMemberNotFound"]
               ELSE [call EXCEPT !.val = TargetPath(call.arg), !.err = "none"]
    /\ UNCHANGED mainvars

\* --- get_latest_zip_link_from_gmail: the body and the link
\* the fixed part of the download link (one element of a text)
UrlPrefix == "https://backend.api.data.wheelpros.com/prod/feed/download"

\* the characters [^"'<\s] excludes
IsDelimiter(c) == c \in {"\"", "'", "<", " ", "\n"}

TextNoLink == <<"H", "i">>
TextLinkA == <<"G", "o", " ", UrlPrefix, "/", "a", " ", "x">>
TextLinkB ==
    <<"<", "a", " ", "h", "r", "e", "f", "=", "\"", UrlPrefix, "?", "b",
      "\"", ">">>
TextBare == <<"s", "e", "e", " ", UrlPrefix, " ", "a">>
TextTwo == <<UrlPrefix, "/", "c", "\n", UrlPrefix, "/", "d">>

Texts == {<<>>, TextNoLink, TextLinkA, TextLinkB, TextBare, TextTwo}

\* urlsafe base64 of a text, as Gmail delivers a body
B64(text) == [b64 |-> text]

\* base64.urlsafe_b64decode(body).decode('utf-8')
Decode(d) == d.b64

MimeTypes == {"text/plain", "text/html", "multipart/alternative"}

Parts == [mimeType : MimeTypes, data : {B64(x) : x \in Texts}]

\* msg['payload']: its parts, and its own body (read when there are no parts)
Payloads ==
    {[parts |-> ps, data |-> B64(<<>>)] : ps \in SeqsUpTo(Parts, MaxParts) \ {<<>>}}
        \cup {[parts |-> <<>>, data |-> B64(x)] : x \in {TextNoLink, TextLinkA}}

RECURSIVE PartsBodyNoBreak(_, _)
\* Faulty variant of PartsBody: no break, the last plain or HTML part wins.
PartsBodyNoBreak(parts, body) ==
    IF parts = <<>> THEN body
    ELSE IF Head(parts).mimeType \in {"text/plain", "text/html"}
    THEN PartsBodyNoBreak(Tail(parts), Head(parts).data)
    ELSE PartsBodyNoBreak(Tail(parts), body)

RECURSIVE PartsBody(_, _)
\* the loop over parts: the first text/plain part ends it, a text/html part
\* replaces the body and the loop goes on
PartsBody(parts, body) ==
    IF parts = <<>> THEN body
    ELSE IF Head(parts).mimeType = "text/plain" THEN Head(parts).data
    ELSE IF Head(parts).mimeType = "text/html"
    THEN PartsBody(Tail(parts), Head(parts).data)
    ELSE PartsBody(Tail(parts), body)

\* the text the link is searched in
ChosenBody(payload) ==
    IF payload.parts # <<>>
    THEN Decode(PartsBody(payload.parts, B64(<<>>)))
    ELSE Decode(payload.data)

\* where the pattern matches: the prefix followed by at least one character
\* that is no delimiter
MatchStarts(text) ==
    {p \in 1..(Len(text) - 1) :
        text[p] = UrlPrefix /\ ~IsDelimiter(text[p + 1])}

\* the last position of the match that starts at p (the + is greedy)
MatchEnd(text, p) ==
    CHOOSE q \in (p + 1)..Len(text) :
        /\ \A k \in (p + 1)..q : ~IsDelimiter(text[k])
        /\ q = Len(text) \/ IsDelimiter(text[q + 1])

\* re.search(pattern, body): the first match, <<>> for None
SearchLink(text) ==
    IF MatchStarts(text) = {} THEN <<>>
    ELSE SubSeq(text, Min(MatchStarts(text)),
                MatchEnd(text, Min(MatchStarts(text))))

CallZipLink ==
    /\ call.fn = "zip_link"
    /\ call.err = "pending"
    /\ call' = IF SearchLink(ChosenBody(call.arg)) = <<>>
               THEN [call EXCEPT !.err = "LinkNotFound"]
               ELSE [call EXCEPT !.val = SearchLink(ChosenBody(call.arg)),
                                 !.err = "none"]
    /\ UNCHANGED mainvars

Calls ==
    {Pending("strip_leading_zeros", v) : v \in PartNumbers}
        \cup {Pending("target_path", fl) : fl \in SeqsUpTo(Names, MaxFiles)}
        \cup {Pending("zip_link", pl) : pl \in Payloads}

InitFn ==
    /\ InitMain
    /\ runB = NoRunB
    /\ call \in Calls

NextFn ==
    \/ CallStripLeadingZeros
    \/ CallTargetPath
    \/ CallZipLink

SpecFn == InitFn /\ [][NextFn]_vars

\* ------------------------------------------------- two overlapping runs
\* Two processes run main() at the same time (nothing in the code prevents
\* it).  Both have published and are about to call log_upload; each then
\* runs sort_log_sheet.  The first run is the run of the variables pc,
\* values, data; the second is runB.  compute_daily_change writes the change
\* column only and is left out.
RowsB == Normalize(TableShort)

\* an entry an earlier run left in the log (of a feed without rows)
EarlierEntry == AllValues(<<LogRow(Strftime([d |-> 0, h |-> 9, m |-> 0]), <<>>)>>)[1]

mainB ==
    <<mailbox, dest, logExists, pc, locals, err, done, history, missing, call>>

\* second run: upload_time = ...; log_upload(...)
LogUploadB ==
    /\ runB.pc = "log_upload"
    /\ \E t \in Instants :
        /\ MinuteOf(t) >= MinuteOf(now)
        /\ now' = t
        /\ log' = Append(log, LogRow(Strftime(t), RowsB))
        /\ runB' = [runB EXCEPT !.pc = "sort_read",
                                !.upload_time = Strftime(t),
                                !.inWindow = (pc = "sort_clear")]
    /\ UNCHANGED mainB

\* second run, sort_log_sheet: get_all_values, the early return, the sort
SortReadB ==
    /\ runB.pc = "sort_read"
    /\ runB' = IF Len(log) <= 1
               THEN [runB EXCEPT !.pc = "compute_read",
                                 !.values = AllValues(log)]
               ELSE [runB EXCEPT !.pc = "sort_clear",
                                 !.values = AllValues(log),
                                 !.data = SortedData(AllValues(log))]
    /\ UNCHANGED <<mainB, log, now>>

\* second run, sort_log_sheet: log_sheet.clear()
SortClearB ==
    /\ runB.pc = "sort_clear"
    /\ log' = <<>>
    /\ runB' = [runB EXCEPT !.pc = "sort_header"]
    /\ UNCHANGED <<mainB, now>>

\* second run, sort_log_sheet: append_row(values[0])
SortHeaderB ==
    /\ runB.pc = "sort_header"
    /\ log' = Append(log, runB.values[1])
    /\ runB' = [runB EXCEPT !.pc = "sort_rows"]
    /\ UNCHANGED <<mainB, now>>

\* second run, sort_log_sheet: one append_row(row) of the loop
SortRowB ==
    /\ runB.pc = "sort_rows"
    /\ log' = Append(log, Head(runB.data))
    /\ runB' = [runB EXCEPT
                    !.data = Tail(runB.data),
                    !.pc = IF Tail(runB.data) = <<>>
                           THEN "compute_read" ELSE "sort_rows"]
    /\ UNCHANGED <<mainB, now>>

InitRace ==
    /\ mailbox = <<[link |-> TRUE, consumed |-> FALSE]>>
    /\ dest = <<DestHeader>> \o Normalize(TableFeed)
    /\ logExists = TRUE
    /\ log \in {<<LogHeader>>, <<LogHeader, EarlierEntry>>}
    /\ now = [d |-> 0, h |-> 9, m |-> 0]
    /\ pc = "log_upload"
    /\ msg_id = 1
    /\ df = TableFeed
    /\ df_small = Normalize(TableFeed)
    /\ upload_time = <<>>
    /\ values = <<>>
    /\ data = <<>>
    /\ i = 0
    /\ err = "none"
    /\ pre = [mailbox |-> mailbox, dest |-> <<>>, logExists |-> TRUE,
              log |-> log]
    /\ done = {"locate", "download", "extract", "normalize", "publish"}
    /\ nRuns = 2
    /\ nOk = 0
    /\ nLogAborts = 0
    /\ nEdits = 0
    /\ lastFailedMsg = 0
    /\ missing = <<>>
    /\ call = NoCall
    /\ runB = [NoRunB EXCEPT !.pc = "log_upload"]

NextRace ==
    \/ LogUpload
    \/ SortRead
    \/ SortClear
    \/ SortHeader
    \/ SortRow
    \/ LogUploadB
    \/ SortReadB
    \/ SortClearB
    \/ SortHeaderB
    \/ SortRowB

SpecRace == InitRace /\ [][NextRace]_vars

\* ------------------------------------------------------------ claim helpers
\* the first six cells of a log row, as displayed
EntryKey(row) == [c \in 1..6 |-> CellText(row[c])]

\* how many rows of a sheet display the entry key
CountKey(sheet, key) ==
    Cardinality({r \in 1..Len(sheet) : EntryKey(sheet[r]) = key})

HeaderKey == EntryKey(LogHeader)

EntryKeys(sheet) ==
    {EntryKey(sheet[r]) : r \in 1..Len(sheet)} \ {HeaderKey}

\* the entry this run's log_upload appends
RunKey == EntryKey(LogRow(upload_time, df_small))

ConsumedChanged ==
    \E m \in 1..Len(pre.mailbox) :
        mailbox[m].consumed # pre.mailbox[m].consumed

PrePublishErrors ==
    {"NotFound", "LinkNotFound", "DownloadFailed", "ArchiveMemberNotFound",
     "SchemaMismatch"}

\* ------------------------------------------------------------------ claims

\* C1: within a run the notification's labels are changed only once every
\* earlier step (locate, download, extract, normalize, publish, log append,
\* sort, recompute) has completed, and that is the end of the run; a run
\* that is aborting has left the labels of every message as they were when
\* it started.
C1_NotifierLast ==
    pc # "idle" =>
        /\ ConsumedChanged => (done = AllSteps /\ pc = "done")
        /\ pc = "raise" => mailbox = pre.mailbox

C1_Witness ==
    /\ pc = "done"
    /\ ~pre.mailbox[msg_id].consumed
    /\ mailbox[msg_id].consumed

\* C2: from a log that was absent or held only the header, and with no
\* aborted run having changed the Log sheet, after N completed runs the log
\* holds exactly N data rows, in non-increasing order of timestamp text.
C2_RowsSorted ==
    (pc \in {"done", "idle"} /\ nLogAborts = 0) =>
        /\ nOk > 0 => Len(log) = nOk + 1
        /\ nOk = 0 => Len(log) <= 1
        /\ \A r \in 2..(Len(log) - 1) :
            ~StrLess(CellText(log[r][1]), CellText(log[r + 1][1]))

C2_Witness ==
    /\ pc = "done"
    /\ nLogAborts = 0
    /\ nOk = 3
    /\ Len(log) = 4
    /\ log[2][1] # log[3][1]
    /\ log[3][1] # log[4][1]

\* the change text the claim prescribes for row r of the log
C3_Expected(r) ==
    LET total(q) == CellText(log[q][totalqoh_col + 1])
        below == {q \in (r + 1)..Len(log) : IsFloat(total(q))}
    IN  IF IsFloat(total(r)) /\ below # {}
        THEN Dec(FloatVal(total(r)) - FloatVal(total(Min(below))))
        ELSE <<>>

\* C3: after a completed reconciliation every row below row 1 shows as its
\* change its total minus the total of the nearest row below whose total
\* parses, and a blank when its own total does not parse or no row below
\* has a parseable total (so the last row's change is blank).
C3_ChangeColumn ==
    pc = "done" =>
        \A r \in 2..Len(log) :
            CellText(log[r][change_col + 1]) = C3_Expected(r)

C3_Witness ==
    /\ pc = "done"
    /\ Len(log) = 4
    /\ IsFloat(CellText(log[2][totalqoh_col + 1]))
    /\ ~IsFloat(CellText(log[3][totalqoh_col + 1]))
    /\ IsFloat(CellText(log[4][totalqoh_col + 1]))
    /\ CellText(log[2][change_col + 1]) \notin {<<>>, <<"0">>}
    /\ CellText(log[3][change_col + 1]) = <<>>

\* C4: after a completed reconciliation (no aborted run having changed the
\* Log sheet) the rows below row 1 are ordered newest first by the instant
\* their timestamp denotes.
C4_Chronological ==
    (pc = "done" /\ nLogAborts = 0) =>
        \A r, q \in 2..Len(log) :
            r < q => TimeOfText(CellText(log[r][1]))
                        >= TimeOfText(CellText(log[q][1]))

\* C5: a run appends a log entry only for a notification that no earlier
\* run has consumed (marked read and archived).
C5_NoReprocess ==
    "log_append" \in done => ~pre.mailbox[msg_id].consumed

\* C6 (as claimed): a run that is aborting has left no new entry in the log.
C6_Original ==
    pc = "raise" => CountKey(log, RunKey) <= CountKey(pre.log, RunKey)

\* C6 (amended): a run that aborts before log_upload leaves the entries of
\* the log as they were; a run that aborts after log_upload and the sort
\* completed (in compute_daily_change or in the mark-as-read call) leaves
\* its new entry in the log, and the destination was published before.
C6_Amended ==
    pc = "raise" =>
        /\ "log_append" \notin done =>
            \A key \in EntryKeys(log) \cup EntryKeys(pre.log) :
                CountKey(log, key) = CountKey(pre.log, key)
        /\ "sort" \in done =>
            /\ CountKey(log, RunKey) = CountKey(pre.log, RunKey) + 1
            /\ "publish" \in done

C6_Witness ==
    /\ pc = "raise"
    /\ "recompute" \in done
    /\ Len(pre.log) >= 2
    /\ CountKey(log, RunKey) = 1

\* C7: a completed run leaves every entry that was in the log in it, once
\* each, with its timestamp, label, row count, range, status and total as
\* displayed before, and adds exactly the one new entry.
C7_AppendOnly ==
    pc = "done" =>
        \A key \in EntryKeys(log) \cup EntryKeys(pre.log) \cup {RunKey} :
            CountKey(log, key) =
                CountKey(pre.log, key) + (IF key = RunKey THEN 1 ELSE 0)

C7_Witness ==
    /\ pc = "done"
    /\ Len(pre.log) >= 3
    /\ EntryKey(log[Len(log)]) = RunKey
    /\ \E r \in 2..Len(pre.log) :
        CellText(log[r][change_col + 1]) # CellText(pre.log[r][change_col + 1])

\* C8: a run aborting with NotFound, LinkNotFound, DownloadFailed,
\* ArchiveMemberNotFound or SchemaMismatch has left the destination table,
\* the log table and the mailbox exactly as they were when it started.
C8_PrePublishFailure ==
    (pc = "raise" /\ err \in PrePublishErrors) =>
        /\ dest = pre.dest
        /\ log = pre.log
        /\ logExists = pre.logExists
        /\ mailbox = pre.mailbox

C8_Witness ==
    /\ pc = "raise"
    /\ err = "SchemaMismatch"
    /\ Len(dest) > 1
    /\ Len(log) > 1

\* C9 (as claimed): the run after an aborted run selects the notification
\* the aborted run was working on.
C9_Original ==
    (msg_id # 0 /\ lastFailedMsg # 0) => msg_id = lastFailedMsg

\* C9 (amended): the run after an aborted run selects the notification the
\* aborted run was working on unless a newer matching notification had
\* arrived when it started; then it selects the newest one.
C9_Amended ==
    (msg_id # 0 /\ lastFailedMsg # 0) =>
        msg_id = (IF Len(pre.mailbox) > lastFailedMsg
                  THEN Len(pre.mailbox) ELSE lastFailedMsg)

C9_Witness ==
    /\ pc = "done"
    /\ lastFailedMsg # 0
    /\ msg_id = lastFailedMsg

\* C10: once the Publisher step of a run has completed, the destination
\* table is the header row of the three required column names followed by
\* the normalized rows in order, and nothing else.
C10_DestReplaced ==
    "publish" \in done =>
        /\ dest = << <<Str(<<"PartNumber">>), Str(<<"PartDescription">>),
                       Str(<<"TotalQOH">>)>> >> \o df_small
        /\ Len(dest) = 1 + Len(df_small)
        /\ df_small = Normalize(df)

C10_Witness ==
    /\ "publish" \in done
    /\ Len(pre.dest) > Len(dest)
    /\ Len(dest) > 1

\* the Log sheet log_upload appended this run's entry to
C11_Appended ==
    Append(IF pre.logExists THEN pre.log ELSE <<LogHeader>>,
           LogRow(upload_time, df_small))

\* C11: sort_log_sheet followed by compute_daily_change, applied with no new
\* entry to the log a completed run left (sorted and computed, which is the
\* reconciliation of the log the run appended to), leaves every row in its
\* place with all seven cells as they were, rows of equal timestamp text
\* included.
C11_Idempotent ==
    pc = "done" =>
        /\ log = Reconcile(C11_Appended)
        /\ Reconcile(log) = log

C11_Witness ==
    /\ pc = "done"
    /\ Len(log) = 4
    /\ log[2][1] = log[3][1]
    /\ log[2] # log[3]
    /\ CellText(log[2][change_col + 1]) # <<>>
    /\ Reconcile(log) = log

\* the steps of a run in the order the claim fixes
C12_Order ==
    <<"locate", "download", "extract", "normalize", "publish", "log_append",
      "sort", "recompute">>

\* C12: within a run the steps complete in the order locate, download,
\* extract, normalize, publish, log append, sort, recompute, mark read: the
\* destination is cleared or written only after the archive member was
\* found and the columns validated, the log is created or changed only
\* after the destination write finished, and the notification is consumed
\* only after the change column was recomputed.
C12_StepOrder ==
    pc # "idle" =>
        /\ \A k \in 2..Len(C12_Order) :
            C12_Order[k] \in done => C12_Order[k - 1] \in done
        /\ (dest # pre.dest \/ pc \in {"publish_update", "log_sheet"})
            => {"extract", "normalize"} \subseteq done
        /\ (log # pre.log \/ logExists # pre.logExists
                \/ pc \in {"log_header", "log_upload", "sort_read"})
            => "publish" \in done
        /\ (ConsumedChanged \/ pc = "done") => "recompute" \in done

C12_Witness ==
    /\ pc = "done"
    /\ done = AllSteps
    /\ dest # pre.dest
    /\ Len(log) > Len(pre.log)
    /\ Len(pre.log) > 1
    /\ ConsumedChanged

\* C13: strip_leading_zeros turns a text of decimal digits into the minimal
\* decimal text of its value (no leading zero, "0" for zeros only), returns
\* every other identifier unchanged, and applying it to its result changes
\* nothing.
C13_Strip ==
    (call.fn = "strip_leading_zeros" /\ call.err # "pending") =>
        /\ call.err = "none"
        /\ IF call.arg.k = "str" /\ AllDigits(call.arg.s)
           THEN /\ call.val.k = "str"
                /\ AllDigits(call.val.s)
                /\ DigitsVal(call.val.s) = DigitsVal(call.arg.s)
                /\ Len(call.val.s) = 1 \/ call.val.s[1] # "0"
           ELSE call.val = call.arg
        /\ strip_leading_zeros(call.val) = call.val

\* the claim's test for a member name, the target in lower case written out
C14_Matches(f) ==
    LET target ==
            <<"w", "h", "e", "e", "l", "i", "n", "v", "p", "r", "i", "c",
              "e", "d", "a", "t", "a", ".", "c", "s", "v">>
    IN  \/ Lower(f) = target
        \/ /\ Len(f) > Len(target)
           /\ SubSeq(Lower(f), Len(f) - Len(target), Len(f)) = <<"/">> \o target

\* C14: the member selected from the archive is an entry whose lower-cased
\* name is the lower-cased target or ends with "/" and the lower-cased
\* target; when no entry is such, the step fails with ArchiveMemberNotFound
\* and selects nothing else.
C14_Member ==
    (call.fn = "target_path" /\ call.err # "pending") =>
        IF \E k \in 1..Len(call.arg) : C14_Matches(call.arg[k])
        THEN /\ call.err = "none"
             /\ \E k \in 1..Len(call.arg) : call.val = call.arg[k]
             /\ C14_Matches(call.val)
        ELSE /\ call.err = "ArchiveMemberNotFound"
             /\ call.val = <<>>

C14_Witness ==
    /\ call.fn = "target_path"
    /\ call.arg = <<NamePrefixed, NameNested>>
    /\ call.val = NameNested

\* C16: when the message has a text/plain part, the link is the first match
\* in the (first) text/plain part's body, whatever the order of the parts;
\* an HTML part's body is searched only when there is no text/plain part;
\* when the body chosen holds no match the call fails with LinkNotFound.
C16_PlainFirst ==
    (call.fn = "zip_link" /\ call.err # "pending") =>
        LET parts == call.arg.parts
            plain == {k \in 1..Len(parts) : parts[k].mimeType = "text/plain"}
            html == {k \in 1..Len(parts) : parts[k].mimeType = "text/html"}
            chosen ==
                IF plain # {} THEN parts[Min(plain)].data
                ELSE parts[CHOOSE k \in html : \A j \in html : j <= k].data
        IN  (plain # {} \/ html # {}) =>
                IF MatchStarts(Decode(chosen)) # {}
                THEN /\ call.err = "none"
                     /\ call.val = SearchLink(Decode(chosen))
                ELSE /\ call.err = "LinkNotFound"
                     /\ call.val = <<>>

C16_Witness ==
    /\ call.fn = "zip_link"
    /\ Len(call.arg.parts) = 2
    /\ call.arg.parts[1] = [mimeType |-> "text/html", data |-> B64(TextLinkB)]
    /\ call.arg.parts[2] = [mimeType |-> "text/plain", data |-> B64(TextLinkA)]
    /\ call.val = <<UrlPrefix, "/", "a">>

\* the required columns the parsed table lacks, in required-column order
C15_Lacking ==
    LET has(c) == \E k \in 1..Len(df.cols) : df.cols[k] = c
    IN  (IF has("PartNumber") THEN <<>> ELSE <<"PartNumber">>)
            \o (IF has("PartDescription") THEN <<>> ELSE <<"PartDescription">>)
            \o (IF has("TotalQOH") THEN <<>> ELSE <<"TotalQOH">>)

\* the cell of row r of the parsed table in the column named c
C15_Cell(r, c) ==
    df.data[r][CHOOSE k \in 1..Len(df.cols) : df.cols[k] = c]

\* C15: when the parsed table lacks required columns the run fails with
\* SchemaMismatch, the list in its message is exactly the lacking required
\* columns in required-column order, and the destination is as it was; when
\* none is lacking the rows are projected to PartNumber, PartDescription,
\* TotalQOH in that order.
C15_Schema ==
    /\ (pc = "raise" /\ err = "SchemaMismatch") =>
        /\ missing # <<>>
        /\ missing = C15_Lacking
        /\ dest = pre.dest
    /\ (pc = "raise" /\ "extract" \in done /\ C15_Lacking # <<>>) =>
        err \in {"SchemaMismatch", "External"}
    /\ "normalize" \in done =>
        /\ C15_Lacking = <<>>
        /\ Len(df_small) = Len(df.data)
        /\ \A r \in 1..Len(df_small) :
            /\ Len(df_small[r]) = 3
            /\ df_small[r][1] =
                    strip_leading_zeros(FillNa(C15_Cell(r, "PartNumber")))
            /\ df_small[r][2] = FillNa(C15_Cell(r, "PartDescription"))
            /\ df_small[r][3] = FillNa(C15_Cell(r, "TotalQOH"))

C15_Witness ==
    /\ pc = "raise"
    /\ err = "SchemaMismatch"
    /\ missing = <<"PartDescription", "TotalQOH">>
    /\ Len(dest) > 1
    /\ dest = pre.dest

RECURSIVE C17_Total(_)
\* the sum the claim prescribes: the quantities that are numbers or numeric
\* text, every other cell counting nothing
C17_Total(rows) ==
    IF rows = <<>> THEN 0
    ELSE LET c == rows[Len(rows)][3]
             q == IF c.k = "num" THEN c.n
                  ELSE IF c.k = "str" /\ IsFloat(c.s) THEN FloatVal(c.s)
                  ELSE 0
         IN  q + C17_Total(SubSeq(rows, 1, Len(rows) - 1))

\* C17: the total of the entry a run appends to the log is the sum of the
\* quantities of all normalized rows, empty and non-numeric cells counting
\* nothing; the completed run's log shows that total for its entry.
C17_TrackedTotal ==
    /\ pc = "sort_read" =>
        /\ log[Len(log)][1] = Str(upload_time)
        /\ log[Len(log)][totalqoh_col + 1] = Num(C17_Total(df_small))
    /\ pc = "done" =>
        \E r \in 1..Len(log) :
            /\ CellText(log[r][1]) = upload_time
            /\ CellText(log[r][3]) = Dec(Len(df_small))
            /\ CellText(log[r][totalqoh_col + 1]) = Dec(C17_Total(df_small))

C17_Witness ==
    /\ pc = "done"
    /\ Len(df_small) = 3
    /\ df_small[1][3] = Num(10)
    /\ df_small[2][3] = Num(5)
    /\ df_small[3][3] = Blank
    /\ \E r \in 2..Len(log) :
        /\ CellText(log[r][1]) = upload_time
        /\ CellText(log[r][totalqoh_col + 1]) = <<"1", "5">>

\* C18: a run that aborts inside the Log Reconciler (after the Publisher,
\* before the change column is recomputed) leaves the header in row 1 and
\* every entry the log held when the run started in the log, with its
\* timestamp and total.
C18_AbortKeepsLog ==
    (pc = "raise" /\ "publish" \in done /\ "recompute" \notin done) =>
        /\ (Len(pre.log) >= 1 /\ EntryKey(pre.log[1]) = HeaderKey) =>
            (Len(log) >= 1 /\ EntryKey(log[1]) = HeaderKey)
        /\ \A key \in EntryKeys(pre.log) :
            CountKey(log, key) >= CountKey(pre.log, key)

\* the entry the second run appended
C19_KeyB == EntryKey(LogRow(runB.upload_time, RowsB))

\* C19: nothing keeps a second run from appending while the first run is
\* inside sort_log_sheet, and when the second run's log_upload lands after
\* the first run read the Log sheet and before it cleared it, the first
\* run's rewrite erases that entry: once the first run's sort completed
\* (the second run not having rewritten anything) the log holds the rows
\* the first run read and the second run's entry is gone.
C19_LostUpdate ==
    /\ runB.pc = "log_upload" => ENABLED LogUploadB
    /\ (runB.inWindow /\ pc = "compute_read" /\ runB.pc = "sort_read") =>
        /\ CountKey(log, C19_KeyB) = 0
        /\ Len(log) = Len(values)
        /\ CountKey(log, RunKey) = 1

C19_Witness ==
    /\ runB.inWindow
    /\ pc = "compute_read"
    /\ runB.pc = "compute_read"
    /\ CountKey(log, C19_KeyB) = 0
    /\ CountKey(log, RunKey) = 1

====
